---- MODULE Spec2Model ----
(***************************************************************************)
(* To-Do List App: the State Container (js/state.js), the Validators       *)
(* (js/validators.js), the ID generator (js/utils.js) and the Persistence  *)
(* Adapter (js/storage.js) as one state machine.                           *)
(*                                                                         *)
(* JavaScript values are tagged records [t |-> <tag>, v |-> <payload>].    *)
(* A string is a sequence of tokens: a title is a sequence of characters,  *)
(* an id or a filter name is a sequence of longer pieces.  A number is an    *)
(* integer ("number"), a finite non-integer ("fraction"), Infinity         *)
(* ("infinity") or NaN ("nan").  A property that is missing from an object *)
(* reads as undefined, so a missing property is the value Undefined.       *)
(***************************************************************************)
EXTENDS Integers, Sequences, FiniteSets, TLC

VARIABLES state, subscribers, slot, faults, last, debounced

vars == <<state, subscribers, slot, faults, last, debounced>>

-----------------------------------------------------------------------------
(* Bounds of the model                                                     *)

MaxTasks == 2

MaxSubs == 1

MaxFaults == 1

\* The registrations the subscriber list can hold at once
MaxRegistrations == 2

\* The wait of a debounced function, in ticks of the clock
Wait == 2

\* The ticks the clock makes
MaxClock == 5

\* The calls of the debounced function
MaxCalls == 3

(* Program constants                                                       *)

MAX_TITLE_LENGTH == 100

MIN_TITLE_LENGTH == 1

\* The wait of debouncedAddTask, in milliseconds
DEBOUNCE_WAIT == 100

-----------------------------------------------------------------------------
(* JavaScript values                                                       *)

Undefined == [t |-> "undefined", v |-> 0]

Null == [t |-> "null", v |-> 0]

Bool(b) == [t |-> "boolean", v |-> b]

Num(n) == [t |-> "number", v |-> n]

Fraction(n) == [t |-> "fraction", v |-> n]

Infinity == [t |-> "infinity", v |-> 0]

NaN == [t |-> "nan", v |-> 0]

Str(s) == [t |-> "string", v |-> s]

Arr(s) == [t |-> "array", v |-> s]

Obj(r) == [t |-> "object", v |-> r]

\* A function, known by its identity
Fn(name) == [t |-> "function", v |-> name]

\* typeof x
TypeOf(x) ==
  CASE x.t \in {"number", "fraction", "infinity", "nan"} -> "number"
    [] x.t \in {"null", "array", "object"} -> "object"
    [] OTHER -> x.t

\* !x for the values the code negates (state, task)
Falsy(x) == x.t \in {"undefined", "null", "nan"}
            \/ (x.t = "boolean" /\ ~x.v)
            \/ (x.t = "number" /\ x.v = 0)
            \/ (x.t = "string" /\ x.v = <<>>)

\* x.<field> of a state-shaped value: a property of a non-object is undefined
Field(x, f) == IF x.t = "object" /\ f \in DOMAIN x.v THEN x.v[f] ELSE Undefined

Rep(c, n) == [i \in 1..n |-> c]

AllStr == <<"all">>

ActiveStr == <<"active">>

CompletedStr == <<"completed">>

BogusStr == <<"bogus">>

TaskObj(id, title, completed, createdAt) ==
  Obj([id |-> id, title |-> title, completed |-> completed, createdAt |-> createdAt])

StateObj(tasks, filter, lastSynced) ==
  Obj([tasks |-> tasks, filter |-> filter, lastSynced |-> lastSynced])

\* StorageService.getDefaultState / State.getDefaultState
getDefaultState == StateObj(Arr(<<>>), Str(AllStr), Null)

-----------------------------------------------------------------------------
(* String.prototype.trim on a sequence of characters                       *)

IsSpace(c) == c = " "

RECURSIVE TrimLeft(_)
TrimLeft(s) == IF s # <<>> /\ IsSpace(Head(s)) THEN TrimLeft(Tail(s)) ELSE s

RECURSIVE TrimRight(_)
TrimRight(s) ==
  IF s # <<>> /\ IsSpace(s[Len(s)]) THEN TrimRight(SubSeq(s, 1, Len(s) - 1)) ELSE s

Trim(s) == TrimRight(TrimLeft(s))

\* /^\s+$/.test(title)
OnlyWhitespace(s) == s # <<>> /\ \A i \in 1..Len(s) : IsSpace(s[i])

-----------------------------------------------------------------------------
(* Validators (js/validators.js)                                           *)

\* validateTaskTitle without the check of the maximum length
validateTaskTitle_NoMaximum(title) ==
  IF title.t \in {"undefined", "null"}
    THEN [isValid |-> FALSE, message |-> "Title is required"]
  ELSE IF TypeOf(title) # "string"
    THEN [isValid |-> FALSE, message |-> "Title must be a string"]
  ELSE IF Len(Trim(title.v)) < MIN_TITLE_LENGTH
    THEN [isValid |-> FALSE, message |-> "Task cannot be empty"]
  ELSE [isValid |-> TRUE, message |-> ""]

\* Validators.validateTaskTitle: the isValid and message of its result
validateTaskTitle(title) ==
  IF title.t \in {"undefined", "null"}
    THEN [isValid |-> FALSE, message |-> "Title is required"]
  ELSE IF TypeOf(title) # "string"
    THEN [isValid |-> FALSE, message |-> "Title must be a string"]
  ELSE IF Len(Trim(title.v)) < MIN_TITLE_LENGTH
    THEN [isValid |-> FALSE, message |-> "Task cannot be empty"]
  ELSE IF Len(Trim(title.v)) > MAX_TITLE_LENGTH
    THEN [isValid |-> FALSE, message |-> "Task title must be 100 characters or less"]
  ELSE IF OnlyWhitespace(title.v)
    THEN [isValid |-> FALSE, message |-> "Task cannot contain only whitespace"]
  ELSE [isValid |-> TRUE, message |-> ""]

\* validateFilter accepting every string
validateFilter_AnyString(filter) == TypeOf(filter) = "string"

\* Validators.validateFilter
validateFilter(filter) ==
  filter \in {Str(AllStr), Str(ActiveStr), Str(CompletedStr)}

\* Validators.validateTaskObject
validateTaskObject(task) ==
  /\ ~Falsy(task) /\ TypeOf(task) = "object"
  /\ \A f \in {"id", "title", "completed", "createdAt"} : Field(task, f) # Undefined
  /\ TypeOf(task.v.id) = "string" /\ Len(task.v.id.v) # 0
  /\ validateTaskTitle(task.v.title).isValid
  /\ TypeOf(task.v.completed) = "boolean"
  /\ TypeOf(task.v.createdAt) = "number"
  /\ ~(task.v.createdAt.t = "number" /\ task.v.createdAt.v <= 0)

-----------------------------------------------------------------------------
(* The browser's localStorage slot and JSON                                *)
(*                                                                         *)
(* The slot holds no item, a text that is not JSON, or a JSON document.    *)
(* A JSON document is a tree with the tags null, boolean, number,          *)
(* fraction, bignum (a number token beyond the double range, such as       *)
(* 1e999), string, array and object; a key that the document does not      *)
(* have is Absent.                                                         *)

NoItem == [t |-> "noitem", v |-> 0]

Garbage == [t |-> "garbage", v |-> 0]

Absent == [t |-> "absent", v |-> 0]

BigNum == [t |-> "bignum", v |-> 0]

\* JSON.stringify: NaN and Infinity become null, a property whose value is
\* undefined is left out, undefined in an array becomes null
RECURSIVE JSONstringify(_)
JSONstringify(x) ==
  CASE x.t = "array" ->
         Arr([i \in 1..Len(x.v) |->
                IF x.v[i].t = "undefined" THEN Null ELSE JSONstringify(x.v[i])])
    [] x.t = "object" -> Obj([f \in DOMAIN x.v |-> JSONstringify(x.v[f])])
    [] x.t \in {"infinity", "nan"} -> Null
    [] x.t = "undefined" -> Absent
    [] OTHER -> x

\* The value JSON.parse builds from a JSON document
RECURSIVE JSONvalue(_)
JSONvalue(j) ==
  CASE j.t = "array" -> Arr([i \in 1..Len(j.v) |-> JSONvalue(j.v[i])])
    [] j.t = "object" -> Obj([f \in DOMAIN j.v |-> JSONvalue(j.v[f])])
    [] j.t = "bignum" -> Infinity
    [] j.t = "absent" -> Undefined
    [] OTHER -> j

\* JSON.parse: throws a SyntaxError on a text that is not JSON
JSONparse(text) ==
  IF text.t = "garbage"
    THEN [threw |-> TRUE, value |-> Undefined]
    ELSE [threw |-> FALSE, value |-> JSONvalue(text)]

-----------------------------------------------------------------------------
(* Persistence Adapter (js/storage.js)                                     *)

\* StorageService.isValidTask
isValidTask(task) ==
  /\ ~Falsy(task) /\ TypeOf(task) = "object"
  /\ TypeOf(Field(task, "id")) = "string"
  /\ TypeOf(Field(task, "title")) = "string"
  /\ TypeOf(Field(task, "completed")) = "boolean"
  /\ TypeOf(Field(task, "createdAt")) = "number"

\* isValidState without the loop over the tasks
isValidState_IgnoresTasks(s) ==
  /\ ~Falsy(s) /\ TypeOf(s) = "object"
  /\ Field(s, "tasks").t = "array"
  /\ Field(s, "filter") \in {Str(AllStr), Str(ActiveStr), Str(CompletedStr)}
  /\ ~(Field(s, "lastSynced") # Null /\ TypeOf(Field(s, "lastSynced")) # "number")

\* isValidState that lets a state without lastSynced pass
isValidState_AbsentLastSynced(s) ==
  /\ ~Falsy(s) /\ TypeOf(s) = "object"
  /\ Field(s, "tasks").t = "array"
  /\ Field(s, "filter") \in {Str(AllStr), Str(ActiveStr), Str(CompletedStr)}
  /\ ~(Field(s, "lastSynced") \notin {Null, Undefined}
        /\ TypeOf(Field(s, "lastSynced")) # "number")
  /\ \A i \in 1..Len(Field(s, "tasks").v) : isValidTask(Field(s, "tasks").v[i])

\* StorageService.isValidState
isValidState(s) ==
  /\ ~Falsy(s) /\ TypeOf(s) = "object"
  /\ Field(s, "tasks").t = "array"
  /\ Field(s, "filter") \in {Str(AllStr), Str(ActiveStr), Str(CompletedStr)}
  /\ ~(Field(s, "lastSynced") # Null /\ TypeOf(Field(s, "lastSynced")) # "number")
  /\ \A i \in 1..Len(Field(s, "tasks").v) : isValidTask(Field(s, "tasks").v[i])

\* The outcomes of localStorage.getItem and localStorage.setItem
ReadOutcomes == {"ok", "SecurityError"}

WriteOutcomes == {"ok", "QuotaExceededError", "SecurityError", "Error"}

\* handleStorageError without its switch: every error is the generic one
handleStorageError_Generic(errorName) == "storage:error"

\* StorageService.handleStorageError: the custom event it dispatches
handleStorageError(errorName) ==
  CASE errorName = "QuotaExceededError" -> "storage:quotaExceeded"
    [] errorName = "SecurityError" -> "storage:securityError"
    [] OTHER -> "storage:error"

\* The try block of StorageService.load, reading slot sl with getItem
\* outcome r: whether it threw, and the value it returned if it did not
loadTry(sl, r) ==
  LET parsed == JSONparse(sl) IN
    IF r # "ok" THEN [threw |-> TRUE, value |-> Undefined]
    ELSE IF sl = NoItem THEN [threw |-> FALSE, value |-> getDefaultState]
    ELSE IF parsed.threw THEN [threw |-> TRUE, value |-> Undefined]
    ELSE IF ~isValidState(parsed.value)
      THEN [threw |-> FALSE, value |-> getDefaultState]
    ELSE [threw |-> FALSE, value |-> parsed.value]

\* load without its catch block: what the try block raises reaches the caller
load_NoCatch(sl, r) == loadTry(sl, r)

\* StorageService.load: the catch block returns the default state
load(sl, r) ==
  LET try == loadTry(sl, r) IN
    IF try.threw THEN [threw |-> FALSE, value |-> getDefaultState] ELSE try

\* saveTry writing the tasks and the filter only
saveTry_WithoutLastSynced(s, sl, w) ==
  IF ~isValidState(s)
    THEN [threw |-> FALSE, error |-> "none", success |-> FALSE, slot |-> sl]
  ELSE IF w = "ok"
    THEN [threw |-> FALSE, error |-> "none", success |-> TRUE,
          slot |-> JSONstringify(StateObj(s.v.tasks, s.v.filter, Undefined))]
  ELSE [threw |-> TRUE, error |-> w, success |-> FALSE, slot |-> sl]

\* save that writes the newest task alone instead of the whole state
saveTry_NewestTaskOnly(s, sl, w) ==
  IF ~isValidState(s)
    THEN [threw |-> FALSE, error |-> "none", success |-> FALSE, slot |-> sl]
  ELSE IF w = "ok"
    THEN [threw |-> FALSE, error |-> "none", success |-> TRUE,
          slot |-> JSONstringify(
                     Obj([s.v EXCEPT !.tasks =
                            Arr(IF s.v.tasks.v = <<>> THEN <<>>
                                ELSE <<s.v.tasks.v[Len(s.v.tasks.v)]>>)]))]
  ELSE [threw |-> TRUE, error |-> w, success |-> FALSE, slot |-> sl]

\* The try block of StorageService.save of value s on slot sl with setItem
\* outcome w: a setItem that raises leaves the slot as it was
saveTry(s, sl, w) ==
  IF ~isValidState(s)
    THEN [threw |-> FALSE, error |-> "none", success |-> FALSE, slot |-> sl]
  ELSE IF w = "ok"
    THEN [threw |-> FALSE, error |-> "none", success |-> TRUE, slot |-> JSONstringify(s)]
  ELSE [threw |-> TRUE, error |-> w, success |-> FALSE, slot |-> sl]

\* save without its catch block: a setItem that raises reaches the caller
save_NoCatch(s, sl, w) ==
  LET try == saveTry(s, sl, w) IN
    [threw |-> try.threw, success |-> try.success, slot |-> try.slot, diag |-> "none"]

\* save whose catch block returns true
save_TrueAfterCatch(s, sl, w) ==
  LET try == saveTry(s, sl, w) IN
    IF try.threw
      THEN [threw |-> FALSE, success |-> TRUE, slot |-> try.slot,
            diag |-> handleStorageError(try.error)]
      ELSE [threw |-> FALSE, success |-> try.success, slot |-> try.slot,
            diag |-> "none"]

\* StorageService.save: the catch block reports the error and returns false.
\* Its return value, the slot afterwards and the diagnostic event dispatched
save(s, sl, w) ==
  LET try == saveTry(s, sl, w) IN
    IF try.threw
      THEN [threw |-> FALSE, success |-> FALSE, slot |-> try.slot,
            diag |-> handleStorageError(try.error)]
      ELSE [threw |-> FALSE, success |-> try.success, slot |-> try.slot,
            diag |-> "none"]

\* The outcomes of localStorage.removeItem
RemoveOutcomes == {"ok", "SecurityError"}

\* clear without its catch block: a removeItem that raises reaches the caller
clear_NoCatch(sl, w) ==
  IF w = "ok" THEN [threw |-> FALSE, success |-> TRUE, slot |-> NoItem]
              ELSE [threw |-> TRUE, success |-> FALSE, slot |-> sl]

\* StorageService.clear with removeItem outcome w: the catch block returns
\* false
clear(sl, w) ==
  IF w = "ok" THEN [threw |-> FALSE, success |-> TRUE, slot |-> NoItem]
              ELSE [threw |-> FALSE, success |-> FALSE, slot |-> sl]

-----------------------------------------------------------------------------
(* ID generation (js/utils.js)                                             *)

\* The values of Math.random().toString(36).substr(2, 6)
RandomSuffixes == {<<"k3x9ab">>, <<"q7z0cd">>}

\* The values Date.now() returns: the wall clock, which can repeat a value
\* and can be set back
Times == {1, 2}

\* Date.now() as a string of digits
Digits(n) == <<ToString(n)>>

\* Utils.generateUniqueId: "task-" + Date.now() + "-" + random suffix
generateUniqueId(timestamp, randomSuffix) ==
  Str(<<"task-">> \o Digits(timestamp) \o <<"-">> \o randomSuffix)

-----------------------------------------------------------------------------
(* State Container (js/state.js)                                           *)
(*                                                                         *)
(* Every operation is an operator from the container's state st, the list  *)
(* of subscribers and the slot sl to the outcome of the call: the state    *)
(* and the slot afterwards, whether the call returned or threw, and the    *)
(* trace of its effects in program order.                                  *)

Ev(kind, what) == [e |-> kind, x |-> what]

\* { ...st }: the own properties of st; spreading null gives no property
Spread(st) ==
  IF st.t = "object" THEN st.v
  ELSE [tasks |-> Undefined, filter |-> Undefined, lastSynced |-> Undefined]

\* state.tasks is an array the code can spread, filter and search
HasTasks(st) == st.t = "object" /\ st.v.tasks.t = "array"

TasksOf(st) == IF HasTasks(st) THEN st.v.tasks.v ELSE <<>>

\* State.getState: a frozen shallow copy
getState(st) == Obj(Spread(st))

\* What a query gives its caller
Answer(result, ret) == [result |-> result, ret |-> ret]

\* State.getFilteredTasks: destructuring null raises, and so does calling
\* filter on tasks that are not an array
getFilteredTasks(st) ==
  IF st.t # "object" THEN Answer("TypeError", Undefined)
  ELSE IF st.v.filter \in {Str(ActiveStr), Str(CompletedStr)} /\ st.v.tasks.t # "array"
    THEN Answer("TypeError", Undefined)
  ELSE IF st.v.filter = Str(ActiveStr)
    THEN Answer("returned",
                Arr(SelectSeq(st.v.tasks.v, LAMBDA task : Falsy(task.v.completed))))
  ELSE IF st.v.filter = Str(CompletedStr)
    THEN Answer("returned",
                Arr(SelectSeq(st.v.tasks.v, LAMBDA task : ~Falsy(task.v.completed))))
  ELSE Answer("returned", st.v.tasks)

\* getActiveTaskCount counting the tasks the filter shows
getActiveTaskCount_OfFiltered(st) ==
  IF getFilteredTasks(st).result # "returned" \/ getFilteredTasks(st).ret.t # "array"
    THEN Answer("TypeError", Undefined)
    ELSE Answer("returned", Num(Len(getFilteredTasks(st).ret.v)))

\* State.getActiveTaskCount
getActiveTaskCount(st) ==
  IF ~HasTasks(st) THEN Answer("TypeError", Undefined)
  ELSE Answer("returned",
              Num(Len(SelectSeq(st.v.tasks.v, LAMBDA task : Falsy(task.v.completed)))))

\* A read of the container: the state and the slot stay as they are
Query(st, sl, answer) ==
  [state |-> st, slot |-> sl, result |-> answer.result, ret |-> answer.ret,
   trace |-> <<>>]

\* The callbacks that raise whenever they are called
Throwers == {"o2"}

\* One round of the forEach in notifySubscribers: the callback is called
\* with getState(), and what it raises is caught and logged
Notice(st, callback) ==
  [e |-> "notify", x |-> callback, snapshot |-> getState(st),
   threw |-> callback \in Throwers]

\* notifySubscribers without the try around the call: the first callback
\* that raises ends the loop
notifySubscribers_StopsAtThrower(st, subs) ==
  LET raising == {i \in 1..Len(subs) : subs[i] \in Throwers}
      stop == IF raising = {} THEN Len(subs)
              ELSE CHOOSE i \in raising : \A j \in raising : i <= j
  IN [i \in 1..stop |-> Notice(st, subs[i])]

\* State.notifySubscribers: every subscriber, in order, is called once
notifySubscribers(st, subs) == [i \in 1..Len(subs) |-> Notice(st, subs[i])]

\* State.subscribe(callback): the callback is pushed and the function that
\* removes it is returned
subscribe(subs, callback) ==
  IF TypeOf(callback) # "function"
    THEN [subscribers |-> subs, result |-> "Error", ret |-> Undefined]
    ELSE [subscribers |-> Append(subs, callback.v), result |-> "returned",
          ret |-> Fn(<<"unsubscribe", callback.v>>)]

\* An unsubscribe that removes nothing
unsubscribe_KeepsAll(subs, callback) == subs

\* The function subscribe returned: subscribers.filter(sub => sub !== callback)
unsubscribe(subs, callback) == SelectSeq(subs, LAMBDA sub : sub # callback)

\* What a caller can do to a value the container handed out
Writes == {"setField", "push", "replaceElement", "setTaskField"}

\* The object a caller puts into a sequence it was handed
Intruder == TaskObj(Str(<<"intruder">>), Str(<<"z">>), Bool(FALSE), Num(0))

\* The position of the object `task` in the container's tasks
PositionOf(tasks, task) ==
  IF \E i \in 1..Len(tasks) : tasks[i] = task
    THEN CHOOSE i \in 1..Len(tasks) :
           tasks[i] = task /\ \A j \in 1..(i - 1) : tasks[j] # task
    ELSE 0

\* The array the container itself holds is the one the caller was handed:
\* getState copies the top level only ({ ...state }), and getFilteredTasks
\* returns state.tasks unless the filter is active or completed
SharesArray(st, op) ==
  \/ op = "getState"
  \/ op = "getFilteredTasks" /\ st.v.filter \notin {Str(ActiveStr), Str(CompletedStr)}

\* The container's state after a caller wrote to `handle`, the value that
\* `op` returned.  The top level of a snapshot is frozen; the tasks array and
\* the task objects are the container's own
callerWrite(st, op, handle, write) ==
  LET tasks == st.v.tasks.v
      held == IF op = "getState" THEN handle.v.tasks.v ELSE handle.v
      at == IF held = <<>> THEN 0 ELSE PositionOf(tasks, held[1])
      With(new) == Obj([st.v EXCEPT !.tasks = Arr(new)])
  IN CASE write = "setField" -> st
       [] write = "push" ->
            IF SharesArray(st, op) THEN With(Append(tasks, Intruder)) ELSE st
       [] write = "replaceElement" ->
            IF SharesArray(st, op) /\ tasks # <<>>
              THEN With([tasks EXCEPT ![1] = Intruder]) ELSE st
       [] write = "setTaskField" ->
            IF at = 0 THEN st
            ELSE With([tasks EXCEPT ![at] =
                         Obj([tasks[at].v EXCEPT !.title = Str(<<"z">>)])])

\* State.persistState: the save and the diagnostic it may dispatch
persistState(st, sl, w) ==
  LET r == save(st, sl, w) IN
    [slot |-> r.slot, threw |-> r.threw,
     trace |-> <<Ev("save", IF r.success THEN "ok" ELSE "failed")>>
               \o (IF r.diag = "none" THEN <<>> ELSE <<Ev("diag", r.diag)>>)]

\* The call throws before it changes anything
Threw(st, sl, why) ==
  [state |-> st, slot |-> sl, result |-> why, ret |-> Undefined, trace |-> <<>>]

\* The tail of a mutation: st has replaced the state; notify, persist,
\* dispatch the custom event, return ret
NotifyPersistDispatch(st, subs, sl, w, event, ret) ==
  LET p == persistState(st, sl, w) IN
    IF p.threw
      THEN [state |-> st, slot |-> p.slot, result |-> "StorageError", ret |-> Undefined,
            trace |-> <<Ev("state", "replaced")>> \o notifySubscribers(st, subs)
                      \o p.trace]
      ELSE [state |-> st, slot |-> p.slot, result |-> "returned", ret |-> ret,
            trace |-> <<Ev("state", "replaced")>> \o notifySubscribers(st, subs)
                      \o p.trace \o <<Ev("event", event)>>]

\* init that installs the state and tells nobody
init_Silent(st, subs, sl, r) ==
  LET loaded == load(sl, r).value IN
    [state |-> loaded, slot |-> sl, result |-> "returned", ret |-> Undefined,
     trace |-> <<Ev("state", "replaced")>>]

\* State.init with getItem outcome r
init(st, subs, sl, r) ==
  LET loaded == load(sl, r).value IN
    [state |-> loaded, slot |-> sl, result |-> "returned", ret |-> Undefined,
     trace |-> <<Ev("state", "replaced")>> \o notifySubscribers(loaded, subs)]

\* addTask storing the title as it was typed
addTask_NoTrim(st, subs, sl, title, t, rnd, w) ==
  IF ~validateTaskTitle(title).isValid THEN Threw(st, sl, "ValidationError")
  ELSE IF ~HasTasks(st) THEN Threw(st, sl, "TypeError")
  ELSE
    LET newTask == TaskObj(generateUniqueId(t, rnd), title, Bool(FALSE), Num(t))
        new == Obj([Spread(st) EXCEPT !.tasks = Arr(Append(st.v.tasks.v, newTask)),
                                      !.lastSynced = Num(t)])
    IN NotifyPersistDispatch(new, subs, sl, w, "task:created", newTask)

\* State.addTask(title) at time t with random suffix rnd and setItem outcome w
addTask(st, subs, sl, title, t, rnd, w) ==
  IF ~validateTaskTitle(title).isValid THEN Threw(st, sl, "ValidationError")
  ELSE IF ~HasTasks(st) THEN Threw(st, sl, "TypeError")
  ELSE
    LET newTask == TaskObj(generateUniqueId(t, rnd), Str(Trim(title.v)),
                           Bool(FALSE), Num(t))
        new == Obj([Spread(st) EXCEPT !.tasks = Arr(Append(st.v.tasks.v, newTask)),
                                      !.lastSynced = Num(t)])
    IN NotifyPersistDispatch(new, subs, sl, w, "task:created", newTask)

\* state.tasks.findIndex(task => task.id === taskId): 0 when there is none
findIndex(tasks, taskId) ==
  IF \E i \in 1..Len(tasks) : tasks[i].v.id = taskId
    THEN CHOOSE i \in 1..Len(tasks) :
           /\ tasks[i].v.id = taskId
           /\ \A j \in 1..(i - 1) : tasks[j].v.id # taskId
    ELSE 0

\* toggleTaskCompleted marking the task completed whatever it was
toggleTaskCompleted_SetsTrue(st, subs, sl, taskId, t, w) ==
  IF ~HasTasks(st) THEN Threw(st, sl, "TypeError")
  ELSE IF findIndex(st.v.tasks.v, taskId) = 0 THEN Threw(st, sl, "NotFoundError")
  ELSE
    LET taskIndex == findIndex(st.v.tasks.v, taskId)
        old == st.v.tasks.v[taskIndex]
        updatedTask == Obj([old.v EXCEPT !.completed = Bool(TRUE)])
        newTasks == [st.v.tasks.v EXCEPT ![taskIndex] = updatedTask]
        new == Obj([Spread(st) EXCEPT !.tasks = Arr(newTasks), !.lastSynced = Num(t)])
    IN NotifyPersistDispatch(new, subs, sl, w, "task:updated", updatedTask.v.completed)

\* toggleTaskCompleted taking the task out and putting the updated one at
\* the end
toggleTaskCompleted_MovesToEnd(st, subs, sl, taskId, t, w) ==
  IF ~HasTasks(st) THEN Threw(st, sl, "TypeError")
  ELSE IF findIndex(st.v.tasks.v, taskId) = 0 THEN Threw(st, sl, "NotFoundError")
  ELSE
    LET taskIndex == findIndex(st.v.tasks.v, taskId)
        old == st.v.tasks.v[taskIndex]
        updatedTask == Obj([old.v EXCEPT !.completed = Bool(Falsy(old.v.completed))])
        newTasks == SubSeq(st.v.tasks.v, 1, taskIndex - 1)
                    \o SubSeq(st.v.tasks.v, taskIndex + 1, Len(st.v.tasks.v))
                    \o <<updatedTask>>
        new == Obj([Spread(st) EXCEPT !.tasks = Arr(newTasks), !.lastSynced = Num(t)])
    IN NotifyPersistDispatch(new, subs, sl, w, "task:updated", updatedTask.v.completed)

\* toggleTaskCompleted stamping the task with the time of the toggle
toggleTaskCompleted_Restamps(st, subs, sl, taskId, t, w) ==
  IF ~HasTasks(st) THEN Threw(st, sl, "TypeError")
  ELSE IF findIndex(st.v.tasks.v, taskId) = 0 THEN Threw(st, sl, "NotFoundError")
  ELSE
    LET taskIndex == findIndex(st.v.tasks.v, taskId)
        old == st.v.tasks.v[taskIndex]
        updatedTask == Obj([old.v EXCEPT !.completed = Bool(Falsy(old.v.completed)),
                                         !.createdAt = Num(t + 2)])
        newTasks == [st.v.tasks.v EXCEPT ![taskIndex] = updatedTask]
        new == Obj([Spread(st) EXCEPT !.tasks = Arr(newTasks), !.lastSynced = Num(t)])
    IN NotifyPersistDispatch(new, subs, sl, w, "task:updated", updatedTask.v.completed)

\* State.toggleTaskCompleted(taskId)
toggleTaskCompleted(st, subs, sl, taskId, t, w) ==
  IF ~HasTasks(st) THEN Threw(st, sl, "TypeError")
  ELSE IF findIndex(st.v.tasks.v, taskId) = 0 THEN Threw(st, sl, "NotFoundError")
  ELSE
    LET taskIndex == findIndex(st.v.tasks.v, taskId)
        old == st.v.tasks.v[taskIndex]
        updatedTask == Obj([old.v EXCEPT !.completed = Bool(Falsy(old.v.completed))])
        newTasks == [st.v.tasks.v EXCEPT ![taskIndex] = updatedTask]
        new == Obj([Spread(st) EXCEPT !.tasks = Arr(newTasks), !.lastSynced = Num(t)])
    IN NotifyPersistDispatch(new, subs, sl, w, "task:updated", updatedTask.v.completed)

\* Removing the first task instead of the tasks with the id
WithoutId_DropsHead(tasks, taskId) == Tail(tasks)

\* tasks.filter(task => task.id !== taskId)
RECURSIVE WithoutId(_, _)
WithoutId(tasks, taskId) ==
  IF tasks = <<>> THEN <<>>
  ELSE IF Head(tasks).v.id # taskId
    THEN <<Head(tasks)>> \o WithoutId(Tail(tasks), taskId)
    ELSE WithoutId(Tail(tasks), taskId)

\* deleteTask without the check that the task exists
deleteTask_NoCheck(st, subs, sl, taskId, t, w) ==
  IF ~HasTasks(st) THEN Threw(st, sl, "TypeError")
  ELSE
    LET new == Obj([Spread(st) EXCEPT !.tasks = Arr(WithoutId(st.v.tasks.v, taskId)),
                                      !.lastSynced = Num(t)])
    IN NotifyPersistDispatch(new, subs, sl, w, "task:deleted", Undefined)

\* State.deleteTask(taskId)
deleteTask(st, subs, sl, taskId, t, w) ==
  IF ~HasTasks(st) THEN Threw(st, sl, "TypeError")
  ELSE IF findIndex(st.v.tasks.v, taskId) = 0 THEN Threw(st, sl, "NotFoundError")
  ELSE
    LET new == Obj([Spread(st) EXCEPT !.tasks = Arr(WithoutId(st.v.tasks.v, taskId)),
                                      !.lastSynced = Num(t)])
    IN NotifyPersistDispatch(new, subs, sl, w, "task:deleted", Undefined)

\* setFilter that dispatches filter:changed before it validates
setFilter_EventFirst(st, subs, sl, filter) ==
  IF ~validateFilter(filter)
    THEN [state |-> st, slot |-> sl, result |-> "ValidationError", ret |-> Undefined,
          trace |-> <<Ev("event", "filter:changed")>>]
  ELSE
    LET new == Obj([Spread(st) EXCEPT !.filter = filter]) IN
      [state |-> new, slot |-> sl, result |-> "returned", ret |-> Undefined,
       trace |-> <<Ev("state", "replaced")>> \o notifySubscribers(new, subs)
                 \o <<Ev("event", "filter:changed")>>]

\* State.setFilter(filter): replaces, notifies and dispatches; it does not
\* call persistState
setFilter(st, subs, sl, filter) ==
  IF ~validateFilter(filter) THEN Threw(st, sl, "ValidationError")
  ELSE
    LET new == Obj([Spread(st) EXCEPT !.filter = filter]) IN
      [state |-> new, slot |-> sl, result |-> "returned", ret |-> Undefined,
       trace |-> <<Ev("state", "replaced")>> \o notifySubscribers(new, subs)
                 \o <<Ev("event", "filter:changed")>>]

\* Observers that call back into the container from inside their callback:
\* o3 sets the filter to completed whenever it sees another filter, o4
\* deletes the first completed task it sees
Reactors == {"o3", "o4"}

\* The position of the first completed task, 0 when there is none
FirstCompleted(tasks) ==
  IF \E i \in 1..Len(tasks) : ~Falsy(tasks[i].v.completed)
    THEN CHOOSE i \in 1..Len(tasks) :
           /\ ~Falsy(tasks[i].v.completed)
           /\ \A j \in 1..(i - 1) : Falsy(tasks[j].v.completed)
    ELSE 0

NoCall == [op |-> "none", arg |-> Undefined, rnd |-> <<>>]

\* The call a callback makes when it is handed snapshot
Reaction(callback, snapshot) ==
  IF callback = "o3" /\ Field(snapshot, "filter") # Str(CompletedStr)
    THEN [op |-> "setFilter", arg |-> Str(CompletedStr), rnd |-> <<>>]
  ELSE IF callback = "o4" /\ FirstCompleted(TasksOf(snapshot)) # 0
    THEN [op |-> "deleteTask",
          arg |-> TasksOf(snapshot)[FirstCompleted(TasksOf(snapshot))].v.id,
          rnd |-> <<>>]
  ELSE NoCall

\* state = { ... }: the module variable is replaced by new
StateEv(new) == [e |-> "state", x |-> "replaced", now |-> getState(new)]

\* persistState saving the state its own operation built
stateToSave_OwnChange(new, current) == new

\* persistState passes the module variable state to save: whatever the
\* callbacks installed since the operation built new
stateToSave(new, current) == current

RECURSIVE notifyReacting(_, _, _, _, _)
RECURSIVE callReacting(_, _, _, _, _)

\* What the callbacks called so far did, followed by what the rest did
Prepend(trace, rest) ==
  [state |-> rest.state, slot |-> rest.slot, trace |-> trace \o rest.trace]

\* Callback i made a call and the call is over: the next callback is called
\* on what the call left
AfterNested(st, subs, i, t, call, nested) ==
  Prepend(<<Notice(st, subs[i]), Ev("nested", call.op)>> \o nested.trace
            \o <<Ev("unwound", call.op)>>,
          notifyReacting(nested.state, nested.slot, subs, i + 1, t))

\* Callback i is called with getState() and makes the call `call`, which
\* runs to its end before the next callback is called
React(st, sl, subs, i, t, call) ==
  IF call = NoCall
    THEN Prepend(<<Notice(st, subs[i])>>, notifyReacting(st, sl, subs, i + 1, t))
    ELSE AfterNested(st, subs, i, t, call, callReacting(st, sl, subs, call, t))

\* notifySubscribers from subscriber i on, when the state is st: each
\* callback gets getState() as it is when its turn comes
notifyReacting(st, sl, subs, i, t) ==
  IF i > Len(subs) THEN [state |-> st, slot |-> sl, trace |-> <<>>]
  ELSE React(st, sl, subs, i, t, Reaction(subs[i], getState(st)))

\* The operation alone, up to the replacement of the state
PlainCall(st, sl, call, t) ==
  CASE call.op = "init" -> init(st, <<>>, sl, call.arg)
    [] call.op = "addTask" -> addTask(st, <<>>, sl, call.arg, t, call.rnd, "ok")
    [] call.op = "toggleTaskCompleted" ->
         toggleTaskCompleted(st, <<>>, sl, call.arg, t, "ok")
    [] call.op = "deleteTask" -> deleteTask(st, <<>>, sl, call.arg, t, "ok")
    [] call.op = "setFilter" -> setFilter(st, <<>>, sl, call.arg)

\* The end of the operation: the save p, if the operation saves, and the
\* event it dispatches
Finish(plain, n, p, saves) ==
  [state |-> n.state,
   slot |-> IF saves THEN p.slot ELSE n.slot,
   result |-> "returned",
   ret |-> plain.ret,
   trace |-> <<StateEv(plain.state)>> \o n.trace
             \o (IF saves THEN p.trace ELSE <<>>)
             \o SelectSeq(plain.trace, LAMBDA ev : ev.e = "event")]

\* The subscribers were called and left n: persistState
AfterNotify(plain, n, call) ==
  Finish(plain, n, persistState(stateToSave(plain.state, n.state), n.slot, "ok"),
         call.op \in {"addTask", "toggleTaskCompleted", "deleteTask"})

\* The state was replaced, or the operation threw: notifySubscribers
AfterPlain(plain, sl, subs, call, t) ==
  IF plain.result # "returned" THEN plain
  ELSE AfterNotify(plain, notifyReacting(plain.state, sl, subs, 1, t), call)

\* A call of init, addTask, toggleTaskCompleted, deleteTask or setFilter at
\* time t with callbacks that may call back: the state is replaced, the
\* subscribers are called, then the operation saves (init and setFilter do
\* not) and dispatches its event
callReacting(st, sl, subs, call, t) ==
  AfterPlain(PlainCall(st, sl, call, t), sl, subs, call, t)

\* An element of the task list an event can have as its target: its class
\* and the data-task-id of the .task item around it
Target(class, taskId) == [class |-> class, taskId |-> taskId]

\* The handler did nothing to the container
Handled(st, sl, shown) ==
  [state |-> st, slot |-> sl, result |-> "returned", ret |-> Undefined,
   trace |-> shown]

\* What the handler does with the outcome r of its State call: what State
\* throws is caught and shown
Caught(r, st, sl, done, failed) ==
  IF r.result = "returned"
    THEN [state |-> r.state, slot |-> r.slot, result |-> "returned",
          ret |-> Undefined, trace |-> r.trace \o done]
    ELSE Handled(st, sl, <<Ev("showNotification", failed)>>)

\* handleTaskListInteraction(e) of main.js for an event whose target is
\* `target`: a checkbox toggles its task, a delete button deletes it
handleTaskListInteraction(st, subs, sl, target, t, w) ==
  IF Falsy(target.taskId) THEN Handled(st, sl, <<>>)
  ELSE IF target.class = "task__checkbox" THEN
    Caught(toggleTaskCompleted(st, subs, sl, target.taskId, t, w), st, sl,
           <<>>, "Failed to update task")
  ELSE IF target.class = "task__delete" THEN
    Caught(deleteTask(st, subs, sl, target.taskId, t, w), st, sl,
           <<Ev("showNotification", "Task deleted")>>, "Failed to delete task")
  ELSE Handled(st, sl, <<>>)

\* The events one user action on `target` delivers to the listeners of the
\* task list, which initEventListeners registers for change and for click:
\* a checkbox gets click and then change, every other element click alone
EventsOf(target) ==
  IF target.class = "task__checkbox" THEN <<"click", "change">> ELSE <<"click">>

RECURSIVE Deliver(_, _, _, _, _, _, _)

\* What the listener did for one event, followed by what the rest did
Joined(event, first, rest) ==
  [state |-> rest.state, slot |-> rest.slot, result |-> "returned",
   ret |-> Undefined,
   trace |-> <<Ev("dom", event)>> \o first.trace \o rest.trace]

\* The listener ran for the first event: the next event is delivered on
\* what it left
AfterFirst(first, subs, target, events, t, w) ==
  Joined(Head(events), first,
         Deliver(first.state, subs, first.slot, target, Tail(events), t, w))

\* The listeners run one after the other, each on what the one before left
Deliver(st, subs, sl, target, events, t, w) ==
  IF events = <<>> THEN Handled(st, sl, <<>>)
  ELSE AfterFirst(handleTaskListInteraction(st, subs, sl, target, t, w),
             subs, target, events, t, w)

\* The tail of setState and updateState: lastSynced, notify, persist
StampNotifyPersist(fields, subs, sl, t, w) ==
  LET new == Obj([fields EXCEPT !.lastSynced = Num(t)])
      p == persistState(new, sl, w)
  IN [state |-> new, slot |-> p.slot,
      result |-> IF p.threw THEN "StorageError" ELSE "returned", ret |-> Undefined,
      trace |-> <<Ev("state", "replaced")>> \o notifySubscribers(new, subs) \o p.trace]

\* State.setState(newState)
setState(st, subs, sl, newState, t, w) ==
  StampNotifyPersist(Spread(newState), subs, sl, t, w)

\* State.updateState(updates): the properties updates has replace st's
updateState(st, subs, sl, updates, t, w) ==
  StampNotifyPersist(
    [f \in {"tasks", "filter", "lastSynced"} |->
       IF Field(updates, f) # Undefined THEN Field(updates, f) ELSE Spread(st)[f]],
    subs, sl, t, w)

-----------------------------------------------------------------------------
(* Inputs                                                                  *)

\* What the form's input can hold when it is submitted
TitleInputs ==
  { Str(<<>>), Str(<<" ", " ">>),
    Str(<<" ", "b", " ">>),
    Str(Rep("c", MAX_TITLE_LENGTH + 1)) }

FilterInputs == {Str(AllStr), Str(ActiveStr), Str(CompletedStr), Str(BogusStr)}

\* The callbacks, in the order they are registered
Observers == <<"o1", "o2", "o3">>

UnknownId == Str(<<"task-0-none">>)

\* The ids a caller can pass: those on screen and one that is not
IdInputs(st) == {TasksOf(st)[i].v.id : i \in 1..Len(TasksOf(st))} \cup {UnknownId}

OldTask(id, title, completed, createdAt) ==
  TaskObj(Str(id), Str(title), Bool(completed), createdAt)

\* What the slot can hold when the page is opened: nothing, a text that is
\* not JSON, or a JSON document written by an earlier session, by another
\* script or by hand
StoredDocuments ==
  { NoItem,
    Garbage,
    StateObj(Arr(<<OldTask(<<"x">>, <<"m">>, FALSE, Num(1)),
                   OldTask(<<"x">>, <<"m">>, TRUE, Num(1))>>), Str(AllStr), Null),
    StateObj(Arr(<<OldTask(<<>>, <<" ">>, FALSE, Num(0))>>), Str(AllStr), Null),
    StateObj(Arr(<<OldTask(<<"y">>, <<"m">>, TRUE, BigNum)>>), Str(AllStr), Num(5)) }

-----------------------------------------------------------------------------
(* Utils.debounce (js/utils.js).  debounced is one function that debounce  *)
(* returned, with the clock: now, the timer its variable timeout stands    *)
(* for, and the history of its calls and of the invocations of func.       *)

NoTimer == [due |-> 0 - 1, args |-> Undefined]

\* debounce(func, wait) has returned and nothing was called: timeout is
\* undefined.  main.js builds debouncedAddTask this way and never calls it
Fresh == [now |-> 0, timeout |-> NoTimer, calls |-> <<>>, invoked |-> <<>>]

\* executedFunction that leaves a running timer as it is and only hands it
\* the new arguments
executedFunction_KeepsDeadline(d, args) ==
  [d EXCEPT !.timeout = [due |-> IF d.timeout = NoTimer THEN d.now + Wait
                                 ELSE d.timeout.due,
                         args |-> args],
            !.calls = Append(@, [at |-> d.now, args |-> args])]

\* executedFunction(...args): clearTimeout(timeout) drops the timer that is
\* waiting, and setTimeout(later, wait) starts one that holds these args
executedFunction(d, args) ==
  [d EXCEPT !.timeout = [due |-> d.now + Wait, args |-> args],
            !.calls = Append(@, [at |-> d.now, args |-> args])]

\* later(): the timer runs; clearTimeout(timeout) finds nothing waiting and
\* func is called with the args of the call that started the timer
later(d) ==
  [d EXCEPT !.timeout = NoTimer,
            !.invoked = Append(@, [at |-> d.now, args |-> d.timeout.args,
                                   after |-> Len(d.calls)])]

-----------------------------------------------------------------------------
(* The state machine                                                       *)

\* What is known of a call once it is over; refused is the number of writes
\* the store had refused in a row when the call began
Done(op, out) ==
  [op |-> op, result |-> out.result, ret |-> out.ret, trace |-> out.trace,
   refused |-> faults]

\* No call is in progress: the previous event-loop turn has ended
Idle == [op |-> "none", result |-> "returned", ret |-> Undefined, trace |-> <<>>]

\* A setItem call of this operation raised: save dispatched a diagnostic
WriteRaised(out) == \E i \in 1..Len(out.trace) : out.trace[i].e = "diag"

\* A setItem call of this operation was accepted
WriteAccepted(out) == \E i \in 1..Len(out.trace) : out.trace[i] = Ev("save", "ok")

\* faults counts the writes the store has refused since it last accepted one
FaultsAfter(out) ==
  IF WriteRaised(out) THEN faults + 1 ELSE IF WriteAccepted(out) THEN 0 ELSE faults

Apply(op, out) ==
  /\ last = Idle
  /\ LET o == out IN
       /\ state' = o.state
       /\ slot' = o.slot
       /\ last' = Done(op, o)
       /\ faults' = FaultsAfter(o)
  /\ faults' <= MaxFaults
  /\ UNCHANGED <<subscribers, debounced>>

Init ==
  /\ state = Null
  /\ subscribers = <<>>
  /\ slot \in StoredDocuments
  /\ faults = 0
  /\ last = Idle
  /\ debounced = Fresh

\* The page is reloaded: the module state is gone, the slot stays
Reload ==
  /\ last = Idle
  /\ state # Null
  /\ state' = Null
  /\ subscribers' = <<>>
  /\ UNCHANGED <<slot, faults, last, debounced>>

\* The turn of the event loop that ran the call ends: its result and its
\* trace are gone
TurnEnds ==
  /\ last # Idle
  /\ last' = Idle
  /\ UNCHANGED <<state, subscribers, slot, faults, debounced>>

Subscribe ==
  /\ last = Idle
  /\ Len(subscribers) < MaxSubs
  /\ subscribers' = Append(subscribers, Observers[Len(subscribers) + 1])
  /\ UNCHANGED <<state, slot, faults, last, debounced>>

InitOp ==
  \E r \in ReadOutcomes :
    /\ state = Null
    /\ Apply("init", init(state, subscribers, slot, r))

\* addTask from the form: a rejected title reads neither the clock nor the
\* store, so only an accepted one draws them
AddTaskOp(outcomes) ==
  \E title \in TitleInputs :
    /\ Len(TasksOf(state)) < MaxTasks
    /\ IF validateTaskTitle(title).isValid /\ HasTasks(state)
         THEN \E now \in Times, rnd \in RandomSuffixes, w \in outcomes :
                Apply("addTask",
                      addTask(state, subscribers, slot, title, now, rnd, w))
         ELSE Apply("addTask",
                    addTask(state, subscribers, slot, title, 1, <<>>, "ok"))

ToggleOp(outcomes) ==
  \E id \in IdInputs(state) :
    IF id # UnknownId
      THEN \E now \in Times, w \in outcomes :
             Apply("toggleTaskCompleted",
                   toggleTaskCompleted(state, subscribers, slot, id, now, w))
      ELSE Apply("toggleTaskCompleted",
                 toggleTaskCompleted(state, subscribers, slot, id, 1, "ok"))

DeleteOp(outcomes) ==
  \E id \in IdInputs(state) :
    IF id # UnknownId
      THEN \E now \in Times, w \in outcomes :
             Apply("deleteTask", deleteTask(state, subscribers, slot, id, now, w))
      ELSE Apply("deleteTask",
                 deleteTask(state, subscribers, slot, id, 1, "ok"))

SetFilterOp ==
  \E f \in FilterInputs :
    Apply("setFilter", setFilter(state, subscribers, slot, f))

\* The container with a store that accepts every write
Next ==
  \/ InitOp
  \/ Reload
  \/ TurnEnds
  \/ Subscribe
  \/ AddTaskOp({"ok"})
  \/ ToggleOp({"ok"})
  \/ DeleteOp({"ok"})
  \/ SetFilterOp

Spec == Init /\ [][Next]_vars

\* The reads of the container
GetStateOp ==
  Apply("getState", Query(state, slot, Answer("returned", getState(state))))

GetFilteredTasksOp ==
  Apply("getFilteredTasks", Query(state, slot, getFilteredTasks(state)))

GetActiveTaskCountOp ==
  Apply("getActiveTaskCount", Query(state, slot, getActiveTaskCount(state)))

\* The operations on the tasks and the filter alone, within one page load
\* and with nobody subscribed
NextOps ==
  \/ InitOp
  \/ TurnEnds
  \/ AddTaskOp({"ok"})
  \/ ToggleOp({"ok"})
  \/ DeleteOp({"ok"})
  \/ SetFilterOp

SpecOps == Init /\ [][NextOps]_vars

\* What a caller can pass to subscribe
CallbackInputs == {Fn("o1"), Fn("o2"), Null}

\* subscribe(callback)
SubscribeOp ==
  \E callback \in CallbackInputs :
    LET r == subscribe(subscribers, callback) IN
      /\ last = Idle
      /\ Len(subscribers) < MaxRegistrations
      /\ subscribers' = r.subscribers
      /\ last' = [op |-> "subscribe", result |-> r.result, ret |-> r.ret,
                  trace |-> <<Ev("subscribe", callback)>>]
      /\ UNCHANGED <<state, slot, faults, debounced>>

\* A function that subscribe returned for a callback still registered is
\* called
UnsubscribeOp ==
  \E i \in 1..Len(subscribers) :
    /\ last = Idle
    /\ subscribers' = unsubscribe(subscribers, subscribers[i])
    /\ last' = [op |-> "unsubscribe", result |-> "returned", ret |-> Undefined,
                trace |-> <<Ev("unsubscribe", subscribers[i])>>]
    /\ UNCHANGED <<state, slot, faults, debounced>>

\* A caller writes to the value the query of this turn returned to it
CallerWriteOp ==
  \E write \in Writes :
    /\ last.op \in {"getState", "getFilteredTasks"}
    /\ last.result = "returned"
    /\ HasTasks(state)
    /\ write \in {"push"} => Len(TasksOf(state)) < MaxTasks
    /\ state' = callerWrite(state, last.op, last.ret, write)
    /\ last' = [op |-> "callerWrite", result |-> "returned", ret |-> Undefined,
                trace |-> <<Ev("write", write), Ev("to", last.op)>>]
    /\ UNCHANGED <<subscribers, slot, faults, debounced>>

\* The page is opened for the first time: the slot is empty
InitFaulty ==
  /\ state = Null
  /\ subscribers = <<>>
  /\ slot = NoItem
  /\ faults = 0
  /\ last = Idle
  /\ debounced = Fresh

\* The container with a store that can refuse a write
NextFaulty ==
  \/ InitOp
  \/ TurnEnds
  \/ AddTaskOp(WriteOutcomes)
  \/ ToggleOp(WriteOutcomes)
  \/ DeleteOp(WriteOutcomes)

SpecFaulty == InitFaulty /\ [][NextFaulty]_vars

\* What a caller can pass to setState and to updateState
SetStateInputs ==
  { StateObj(Arr(<<>>), Str(BogusStr), Null),
    StateObj(Arr(<<>>), Str(CompletedStr), Null) }

UpdateStateInputs ==
  { StateObj(Undefined, Str(BogusStr), Undefined),
    StateObj(Undefined, Str(ActiveStr), Undefined) }

SetStateOp ==
  \E newState \in SetStateInputs, now \in Times :
    Apply("setState", setState(state, subscribers, slot, newState, now, "ok"))

UpdateStateOp ==
  \E updates \in UpdateStateInputs, now \in Times :
    Apply("updateState", updateState(state, subscribers, slot, updates, now, "ok"))

\* The operations that can set the filter, setState and updateState
\* included, next to init and addTask
NextFull ==
  \/ InitOp
  \/ TurnEnds
  \/ AddTaskOp({"ok"})
  \/ SetFilterOp
  \/ SetStateOp
  \/ UpdateStateOp

SpecFull == Init /\ [][NextFull]_vars

\* The mutations, accepted and rejected, with an observer watching, on a
\* first visit
NextRejects ==
  \/ InitOp
  \/ TurnEnds
  \/ Subscribe
  \/ AddTaskOp({"ok"})
  \/ ToggleOp({"ok"})
  \/ DeleteOp({"ok"})
  \/ SetFilterOp

SpecRejects == InitFaulty /\ [][NextRejects]_vars

\* The callbacks the nested calls are checked with: one that only looks and
\* the two that call back
ReactorInputs == {"o1", "o3", "o4"}

\* subscribe(callback) for a callback that is not registered yet
SubscribeReactorOp ==
  \E name \in ReactorInputs :
    LET r == subscribe(subscribers, Fn(name)) IN
      /\ last = Idle
      /\ Len(subscribers) < MaxRegistrations
      /\ \A i \in 1..Len(subscribers) : subscribers[i] # name
      /\ subscribers' = r.subscribers
      /\ last' = [op |-> "subscribe", result |-> r.result, ret |-> r.ret,
                  trace |-> <<Ev("subscribe", Fn(name))>>]
      /\ UNCHANGED <<state, slot, faults, debounced>>

InitReactingOp ==
  \E r \in ReadOutcomes :
    /\ state = Null
    /\ Apply("init", callReacting(state, slot, subscribers,
                                  [op |-> "init", arg |-> r, rnd |-> <<>>], 1))

AddTaskReactingOp ==
  \E title \in {Str(<<"a">>)}, now \in Times, rnd \in {<<"k3x9ab">>} :
    /\ Len(TasksOf(state)) < MaxTasks
    /\ Apply("addTask", callReacting(state, slot, subscribers,
                                     [op |-> "addTask", arg |-> title, rnd |-> rnd], now))

ToggleReactingOp ==
  \E id \in IdInputs(state) \ {UnknownId}, now \in Times :
    Apply("toggleTaskCompleted",
          callReacting(state, slot, subscribers,
                       [op |-> "toggleTaskCompleted", arg |-> id, rnd |-> <<>>], now))

SetFilterReactingOp ==
  \E f \in {Str(AllStr), Str(ActiveStr), Str(CompletedStr)} :
    Apply("setFilter", callReacting(state, slot, subscribers,
                                    [op |-> "setFilter", arg |-> f, rnd |-> <<>>], 1))

\* The container with observers that call back, on a first visit
NextNested ==
  \/ InitReactingOp
  \/ TurnEnds
  \/ SubscribeReactorOp
  \/ AddTaskReactingOp
  \/ ToggleReactingOp
  \/ SetFilterReactingOp

SpecNested == InitFaulty /\ [][NextNested]_vars

\* What the user can click in the task list: the checkbox, the title or the
\* delete button of a task on screen
TargetsOf(st) ==
  {Target(class, TasksOf(st)[i].v.id) :
     class \in {"task__checkbox", "task__title", "task__delete"},
     i \in 1..Len(TasksOf(st))}

\* The user clicks an element of the task list
TaskListClickedOp ==
  \E target \in TargetsOf(state), now \in Times :
    Apply(target.class,
          Deliver(state, subscribers, slot, target, EventsOf(target), now, "ok"))

\* The page: the form, the filter buttons and the task list, on a first visit
NextPage ==
  \/ InitOp
  \/ TurnEnds
  \/ AddTaskOp({"ok"})
  \/ SetFilterOp
  \/ TaskListClickedOp

SpecPage == InitFaulty /\ [][NextPage]_vars

\* The arguments the debounced function is called with
ArgInputs == {Str(<<"a">>), Str(<<"b">>)}

\* The debounced function is called
CallDebouncedOp ==
  \E args \in ArgInputs :
    /\ Len(debounced.calls) < MaxCalls
    /\ debounced' = executedFunction(debounced, args)
    /\ UNCHANGED <<state, subscribers, slot, faults, last>>

\* The event loop runs the timer: no earlier than its delay, and later when
\* it has other work first
TimerFiresOp ==
  /\ debounced.timeout # NoTimer
  /\ debounced.now >= debounced.timeout.due
  /\ debounced' = later(debounced)
  /\ UNCHANGED <<state, subscribers, slot, faults, last>>

\* Time passes
TickOp ==
  /\ debounced.now < MaxClock
  /\ debounced' = [debounced EXCEPT !.now = @ + 1]
  /\ UNCHANGED <<state, subscribers, slot, faults, last>>

\* A debounced function, its callers and the clock
NextDebounce ==
  \/ CallDebouncedOp
  \/ TimerFiresOp
  \/ TickOp

SpecDebounce == InitFaulty /\ [][NextDebounce]_vars

\* The reads of the container between its mutations
NextQueries ==
  \/ InitOp
  \/ TurnEnds
  \/ AddTaskOp({"ok"})
  \/ ToggleOp({"ok"})
  \/ SetFilterOp
  \/ GetStateOp
  \/ GetFilteredTasksOp
  \/ GetActiveTaskCountOp

SpecQueries == Init /\ [][NextQueries]_vars

\* The container and its observers, on a first visit: a mutation that
\* saves and one that does not
NextObservers ==
  \/ InitOp
  \/ TurnEnds
  \/ SubscribeOp
  \/ UnsubscribeOp
  \/ AddTaskOp({"ok"})
  \/ SetFilterOp

SpecObservers == InitFaulty /\ [][NextObservers]_vars

\* The container and the callers that write to what it returns
NextHandles ==
  \/ InitOp
  \/ TurnEnds
  \/ AddTaskOp({"ok"})
  \/ SetFilterOp
  \/ GetStateOp
  \/ GetFilteredTasksOp
  \/ CallerWriteOp

SpecHandles == InitFaulty /\ [][NextHandles]_vars

-----------------------------------------------------------------------------
(* The Persistence Adapter on its own: save and load applied to candidate  *)
(* states and slot contents drawn from bounded sets.  Here the variable    *)
(* state holds the value a caller passes to save.                          *)

ValidTask == TaskObj(Str(<<"x">>), Str(<<"m">>), Bool(FALSE), Num(1))

OtherTask == TaskObj(Str(<<"y">>), Str(<<" ", "n">>), Bool(TRUE), Num(2))

\* Documents a slot can hold, well-formed or not
SlotContents ==
  { NoItem, Garbage, Num(5), Null,
    getDefaultState,
    StateObj(Arr(<<ValidTask, OtherTask>>), Str(ActiveStr), Num(7)),
    StateObj(Arr(<<ValidTask>>), Str(AllStr), Absent),
    StateObj(Arr(<<ValidTask>>), Str(BogusStr), Null),
    StateObj(Arr(<<ValidTask>>), Str(AllStr), Str(<<"7">>)),
    StateObj(Num(0), Str(AllStr), Null),
    StateObj(Arr(<<ValidTask, Null>>), Str(AllStr), Null),
    StateObj(Arr(<<ValidTask, TaskObj(Str(<<"z">>), Str(<<"m">>), Absent, Num(1))>>),
             Str(AllStr), Null),
    StateObj(Arr(<<ValidTask, TaskObj(Str(<<"z">>), Str(<<>>), Bool(FALSE), Num(1))>>),
             Str(AllStr), Null),
    StateObj(Arr(<<TaskObj(Str(<<"z">>), Str(<<" ", " ">>), Bool(FALSE), Num(1))>>),
             Str(AllStr), Null),
    StateObj(Arr(<<TaskObj(Str(<<"z">>), Str(Rep("c", MAX_TITLE_LENGTH + 1)),
                           Bool(FALSE), Num(1))>>), Str(AllStr), Null),
    StateObj(Arr(<<TaskObj(Str(<<>>), Str(<<"m">>), Bool(FALSE), Num(1))>>),
             Str(AllStr), Null),
    StateObj(Arr(<<ValidTask, ValidTask>>), Str(AllStr), Null),
    StateObj(Arr(<<TaskObj(Str(<<"z">>), Str(<<"m">>), Bool(FALSE), Num(0))>>),
             Str(AllStr), Null),
    StateObj(Arr(<<TaskObj(Str(<<"z">>), Str(<<"m">>), Bool(FALSE), Fraction(1))>>),
             Str(AllStr), Null),
    StateObj(Arr(<<TaskObj(Str(<<"z">>), Str(<<"m">>), Bool(FALSE), BigNum)>>),
             Str(AllStr), Null) }

\* Values a caller can pass to save
SaveInputs ==
  { getDefaultState,
    StateObj(Arr(<<ValidTask, OtherTask>>), Str(CompletedStr), Num(3)),
    StateObj(Arr(<<OtherTask, ValidTask>>), Str(ActiveStr), Null),
    StateObj(Arr(<<TaskObj(Str(<<"z">>), Str(Rep("c", MAX_TITLE_LENGTH)),
                           Bool(TRUE), Num(1))>>), Str(AllStr), Num(1)),
    StateObj(Arr(<<ValidTask>>), Str(AllStr), Undefined),
    StateObj(Arr(<<ValidTask>>), Str(BogusStr), Null),
    StateObj(Arr(<<TaskObj(Str(<<"z">>), Str(<<>>), Bool(FALSE), Num(1))>>),
             Str(AllStr), Null),
    StateObj(Arr(<<ValidTask, ValidTask>>), Str(AllStr), Null),
    StateObj(Arr(<<TaskObj(Str(<<"z">>), Str(<<"m">>), Bool(FALSE), NaN)>>),
             Str(AllStr), Null),
    StateObj(Arr(<<TaskObj(Str(<<"z">>), Str(<<"m">>), Bool(FALSE), Num(0))>>),
             Str(AllStr), Null),
    Null }

InitStore ==
  /\ state \in SaveInputs
  /\ subscribers \in {<<>>, <<Observers[1]>>}
  /\ slot \in SlotContents
  /\ faults = 0
  /\ last = Idle
  /\ debounced = Fresh

\* StorageService.save(state) with setItem outcome w.  The trace records the
\* store's condition, the outcome and the diagnostic
SaveOp ==
  \E w \in WriteOutcomes :
    LET r == save(state, slot, w) IN
      /\ slot' = r.slot
      /\ last' = [op |-> "save",
                  result |-> IF r.threw THEN "StorageError" ELSE "returned",
                  ret |-> Bool(r.success),
                  trace |-> <<Ev("store", w)>>
                            \o (IF r.diag = "none" THEN <<>> ELSE <<Ev("diag", r.diag)>>)]
      /\ UNCHANGED <<state, subscribers, faults, debounced>>

\* StorageService.load() with getItem outcome r.  The trace records the
\* store's condition and the call that came before
LoadOp ==
  \E r \in ReadOutcomes :
    /\ last.op # "load"
    /\ LET l == load(slot, r) IN
         last' = [op |-> "load",
                  result |-> IF l.threw THEN "StorageError" ELSE "returned",
                  ret |-> l.value,
                  trace |-> <<Ev("getItem", r), Ev("after", last.op)>> \o last.trace]
    /\ UNCHANGED <<state, subscribers, slot, faults, debounced>>

\* StorageService.clear() with removeItem outcome w
ClearOp ==
  \E w \in RemoveOutcomes :
    LET r == clear(slot, w) IN
      /\ last.op # "clear"
      /\ slot' = r.slot
      /\ last' = [op |-> "clear",
                  result |-> IF r.threw THEN "StorageError" ELSE "returned",
                  ret |-> Bool(r.success),
                  trace |-> <<Ev("store", w)>>]
      /\ UNCHANGED <<state, subscribers, faults, debounced>>

NextStore ==
  \/ SaveOp
  \/ LoadOp
  \/ ClearOp

SpecStore == InitStore /\ [][NextStore]_vars

-----------------------------------------------------------------------------
(* Properties                                                              *)

\* The Task invariants: a non-empty id, a title that is not empty after
\* trimming and has at most MAX_TITLE_LENGTH characters, a boolean completed
\* flag, a positive integer createdAt
PositiveInteger(x) == x.t = "number" /\ x.v >= 1

TitleOK(x) ==
  /\ x.t = "string"
  /\ Len(Trim(x.v)) >= MIN_TITLE_LENGTH
  /\ Len(x.v) <= MAX_TITLE_LENGTH

TaskInvariant(task) ==
  /\ task.t = "object"
  /\ Field(task, "id").t = "string" /\ Field(task, "id").v # <<>>
  /\ TitleOK(Field(task, "title"))
  /\ Field(task, "completed").t = "boolean"
  /\ PositiveInteger(Field(task, "createdAt"))

UniqueIds(tasks) ==
  \A i, j \in 1..Len(tasks) :
    i # j => Field(tasks[i], "id") # Field(tasks[j], "id")

\* A valid state: every task satisfies the Task invariants, ids are unique,
\* the filter is one of the three, lastSynced is absent, null or a positive
\* integer
ValidState(s) ==
  /\ s.t = "object"
  /\ Field(s, "tasks").t = "array"
  /\ \A i \in 1..Len(Field(s, "tasks").v) : TaskInvariant(Field(s, "tasks").v[i])
  /\ UniqueIds(Field(s, "tasks").v)
  /\ Field(s, "filter") \in {Str(AllStr), Str(ActiveStr), Str(CompletedStr)}
  /\ \/ Field(s, "lastSynced") \in {Undefined, Null}
     \/ PositiveInteger(Field(s, "lastSynced"))

\* C1: in every state reachable from init by addTask, toggleTaskCompleted,
\* deleteTask and setFilter, no two tasks have the same id
C1_UniqueIds == UniqueIds(TasksOf(state))

\* C2: in every state reachable through the container's public operations,
\* setState and updateState included, filter is all, active or completed
C2_FilterRecognized ==
  state.t = "object" =>
    state.v.filter \in {Str(AllStr), Str(ActiveStr), Str(CompletedStr)}

Mutations == {"addTask", "toggleTaskCompleted", "deleteTask", "setFilter"}

\* The steps of a mutation in order: the state is replaced, every observer
\* is notified in turn, then save is called; nothing is notified afterwards
ReplaceNotifySave(trace, subs) ==
  /\ Len(trace) >= Len(subs) + 2
  /\ trace[1] = Ev("state", "replaced")
  /\ \A i \in 1..Len(subs) : trace[1 + i].e = "notify" /\ trace[1 + i].x = subs[i]
  /\ trace[Len(subs) + 2].e = "save"
  /\ \A i \in (Len(subs) + 3)..Len(trace) : trace[i].e \notin {"notify", "save", "state"}

\* C3: every mutating operation (addTask, toggleTaskCompleted, deleteTask,
\* setFilter) that goes through on an initialized container replaces the
\* state, then notifies every observer, then calls save, and notifies nobody
\* after the save
C3_ReplaceNotifySave ==
  (last.op \in Mutations /\ last.result = "returned" /\ HasTasks(state))
    => ReplaceNotifySave(last.trace, subscribers)

\* The filter the stored document holds
StoredFilter(sl) ==
  IF sl = NoItem \/ JSONparse(sl).threw THEN Undefined
  ELSE Field(JSONparse(sl).value, "filter")

\* C4: after setFilter(f) with a recognized f has returned on an initialized
\* container, with a store that accepts every write, the stored slot holds
\* filter = f
C4_SetFilterSaved ==
  (last.op = "setFilter" /\ last.result = "returned" /\ HasTasks(state))
    => StoredFilter(slot) = state.v.filter

SaveFailed(trace) == \E i \in 1..Len(trace) : trace[i] = Ev("save", "failed")

\* The in-memory tasks after the call are those before it with the call's
\* change applied
ChangeKept(op, ret, before, after) ==
  CASE op = "addTask" -> after = Append(before, ret)
    [] op = "toggleTaskCompleted" ->
         /\ Len(after) = Len(before)
         /\ \E i \in 1..Len(before) :
              /\ after[i] = Obj([before[i].v EXCEPT !.completed = ret])
              /\ ret = Bool(Falsy(before[i].v.completed))
              /\ \A j \in 1..Len(before) : j # i => after[j] = before[j]
    [] op = "deleteTask" ->
         /\ Len(after) < Len(before)
         /\ \A i \in 1..Len(after) : \E j \in 1..Len(before) : after[i] = before[j]
    [] OTHER -> TRUE

\* C5: when the save of a mutating operation fails, the operation returns
\* normally and the in-memory state holds its change; an operation called
\* after a failed save works on the in-memory state in the same way
C5_FailedSaveKeepsChange ==
  [][ (/\ last'.op \in Mutations
       /\ HasTasks(state)
       /\ last'.result \notin {"ValidationError", "NotFoundError"}
       /\ SaveFailed(last'.trace) \/ faults > 0)
      => /\ last'.result = "returned"
         /\ ChangeKept(last'.op, last'.ret, TasksOf(state), TasksOf(state')) ]_vars

\* C5 happens: addTask returned its task, the state holds it, the save
\* failed and the slot is without it
C5_Witness ==
  /\ last.op = "addTask"
  /\ last.result = "returned"
  /\ SaveFailed(last.trace)
  /\ Len(TasksOf(state)) >= 1
  /\ TasksOf(state)[Len(TasksOf(state))] = last.ret
  /\ slot = NoItem

\* load ran right after a save that the store accepted, and the read worked
LoadAfterAcceptedSave ==
  /\ last.op = "load"
  /\ Len(last.trace) >= 3
  /\ last.trace[1] = Ev("getItem", "ok")
  /\ last.trace[2] = Ev("after", "save")
  /\ last.trace[3] = Ev("store", "ok")

\* C6 as stated: for any valid state s, lastSynced absent included, save(s)
\* followed by load() returns a state deep-equal to s
C6_RoundTripAnyValid ==
  (LoadAfterAcceptedSave /\ ValidState(state)) => last.ret = state

\* C6: for any valid state s that has a lastSynced, null or a positive
\* integer, save(s) followed by load() returns a state deep-equal to s
C6_RoundTrip ==
  (/\ LoadAfterAcceptedSave
   /\ ValidState(state)
   /\ Field(state, "lastSynced") # Undefined) => last.ret = state

\* C6 happens: a state with two tasks and a lastSynced came back from load
C6_Witness ==
  /\ LoadAfterAcceptedSave
  /\ ValidState(state)
  /\ Len(TasksOf(state)) = 2
  /\ PositiveInteger(Field(state, "lastSynced"))
  /\ last.ret = state

\* The stored value is absent, does not parse, or fails the validation of
\* load
Unusable(sl) ==
  \/ sl = NoItem
  \/ JSONparse(sl).threw
  \/ ~isValidState(JSONparse(sl).value)

\* C7: with a store that accepts every write, after a successful addTask,
\* toggleTaskCompleted or deleteTask a reload yields exactly the in-memory
\* tasks
C7_ReloadYieldsTasks ==
  (/\ last.op \in {"addTask", "toggleTaskCompleted", "deleteTask"}
   /\ last.result = "returned")
    => TasksOf(init(Null, <<>>, slot, "ok").state) = TasksOf(state)

\* C8: load never raises, and returns the default state when the slot is
\* absent, does not parse, fails validation, or when reading throws
C8_LoadNeverRaises ==
  last.op = "load" =>
    /\ last.result = "returned"
    /\ (last.trace[1] # Ev("getItem", "ok") \/ Unusable(slot))
         => last.ret = getDefaultState

\* C8 happens: load met a stored value that does not parse and returned the
\* default state
C8_Witness ==
  /\ last.op = "load"
  /\ last.trace[1] = Ev("getItem", "ok")
  /\ slot = Garbage
  /\ last.result = "returned"
  /\ last.ret = getDefaultState

\* Some task of s has an empty, whitespace-only or too long title, an empty
\* or duplicated id, or a createdAt that is not a positive integer
ViolatesTaskInvariant(s) ==
  /\ s.t = "object"
  /\ Field(s, "tasks").t = "array"
  /\ \/ ~UniqueIds(Field(s, "tasks").v)
     \/ \E i \in 1..Len(Field(s, "tasks").v) :
          LET task == Field(s, "tasks").v[i] IN
            \/ ~TitleOK(Field(task, "title"))
            \/ Field(task, "id") = Str(<<>>)
            \/ ~PositiveInteger(Field(task, "createdAt"))

\* C9: a state with a task that violates a Task invariant makes load return
\* the default state and makes save return false
C9_RejectsInvalidTasks ==
  /\ (/\ last.op = "load"
      /\ slot # NoItem
      /\ ~JSONparse(slot).threw
      /\ ViolatesTaskInvariant(JSONparse(slot).value))
       => last.ret = getDefaultState
  /\ (last.op = "save" /\ ViolatesTaskInvariant(state))
       => last.ret = Bool(FALSE)

\* C10: in every reachable state of the container every task's title is
\* non-empty after trimming and at most 100 characters long, and its
\* createdAt is a positive integer
C10_TitleAndCreatedAt ==
  \A i \in 1..Len(TasksOf(state)) :
    /\ TitleOK(Field(TasksOf(state)[i], "title"))
    /\ PositiveInteger(Field(TasksOf(state)[i], "createdAt"))

\* The stored document as load parses it, when there is one that parses
StoredValue(sl) ==
  IF sl = NoItem \/ JSONparse(sl).threw THEN Undefined ELSE JSONparse(sl).value

\* Some task of the document fails the validation load applies to a task
SomeTaskFailsValidation(doc) ==
  /\ Field(doc, "tasks").t = "array"
  /\ \E i \in 1..Len(Field(doc, "tasks").v) : ~isValidTask(Field(doc, "tasks").v[i])

\* C11: when some task of the stored state fails validation, load returns
\* the default state; what load returns is the whole stored state or the
\* default state, never a part of the stored state
C11_AllOrNothing ==
  (last.op = "load" /\ last.trace[1] = Ev("getItem", "ok"))
    => /\ SomeTaskFailsValidation(StoredValue(slot)) => last.ret = getDefaultState
       /\ last.ret \in {getDefaultState, StoredValue(slot)}

\* C11 happens: the stored state has a valid task and a task without a
\* completed flag, and load returned the default state
C11_Witness ==
  /\ last.op = "load"
  /\ last.trace[1] = Ev("getItem", "ok")
  /\ SomeTaskFailsValidation(StoredValue(slot))
  /\ isValidTask(Field(StoredValue(slot), "tasks").v[1])
  /\ last.ret = getDefaultState

\* C12: save(state) returns true exactly when the state passes validation
\* and the store takes the write, and then the slot holds the serialization
\* of state; when the state is invalid or the store raises it returns false
\* and the slot keeps its value
C12_SaveResult ==
  [][ last'.op = "save"
      => /\ last'.result = "returned"
         /\ last'.ret = Bool(isValidState(state) /\ last'.trace[1] = Ev("store", "ok"))
         /\ last'.ret = Bool(TRUE) => slot' = JSONstringify(state)
         /\ last'.ret = Bool(FALSE) => slot' = slot ]_vars

\* C12 happens: the store refused the write of a valid state, save
\* returned false and the slot holds another document than that state
C12_Witness ==
  /\ last.op = "save"
  /\ last.trace[1] = Ev("store", "QuotaExceededError")
  /\ isValidState(state)
  /\ last.ret = Bool(FALSE)
  /\ slot \notin {NoItem, Garbage, JSONstringify(state)}

\* The signal of an error class
SignalOf(errorName) ==
  CASE errorName = "QuotaExceededError" -> "storage:quotaExceeded"
    [] errorName = "SecurityError" -> "storage:securityError"
    [] OTHER -> "storage:error"

\* C13: a write that fails in save emits exactly one diagnostic, the one of
\* its error class, and save invokes no state observer
C13_OneDiagnostic ==
  last.op = "save" =>
    /\ (isValidState(state) /\ last.trace[1] # Ev("store", "ok"))
         => /\ Cardinality({i \in 1..Len(last.trace) : last.trace[i].e = "diag"}) = 1
            /\ \E i \in 1..Len(last.trace) :
                 last.trace[i] = Ev("diag", SignalOf(last.trace[1].x))
    /\ \A i \in 1..Len(last.trace) : last.trace[i].e # "notify"

\* C13 happens: with an observer registered, an access-denied write made
\* save emit the unavailable signal
C13_Witness ==
  /\ last.op = "save"
  /\ subscribers # <<>>
  /\ last.trace = <<Ev("store", "SecurityError"), Ev("diag", "storage:securityError")>>

\* C14: lastSynced is null while no save has succeeded, and otherwise the
\* time of the last successful save, which is the lastSynced the slot holds;
\* a mutation whose save fails does not set it
C14_LastSyncedIsLastSave ==
  HasTasks(state) =>
    state.v.lastSynced = (IF slot \in {NoItem, Garbage} THEN Null
                          ELSE Field(StoredValue(slot), "lastSynced"))

\* The titles addTask has to reject
RejectedTitles ==
  {title \in TitleInputs :
     Trim(title.v) = <<>> \/ Len(Trim(title.v)) > MAX_TITLE_LENGTH}

\* C15: addTask with a title that is empty, whitespace-only or longer than
\* 100 characters after trimming signals a validation error and changes
\* neither tasks, filter nor lastSynced
C15_InvalidTitleRejected ==
  /\ [](last = Idle =>
        \A title \in RejectedTitles, now \in Times, rnd \in RandomSuffixes :
          LET out == addTask(state, subscribers, slot, title, now, rnd, "ok") IN
            out.result = "ValidationError" /\ out.state = state)
  /\ [][ (last'.op = "addTask" /\ last'.result = "ValidationError")
         => state' = state ]_vars

\* C15 happens: addTask signalled a validation error on a container that
\* holds a task
C15_Witness ==
  /\ last.op = "addTask"
  /\ last.result = "ValidationError"
  /\ Len(TasksOf(state)) >= 1

\* C16: a successful addTask appends one task at the end of tasks, with
\* completed = false and the trimmed title, returns it, and leaves the
\* tasks that were there as they were and in their order
C16_AddAppends ==
  [][ (last'.op = "addTask" /\ last'.result = "returned")
      => /\ TasksOf(state') = Append(TasksOf(state), last'.ret)
         /\ last'.ret.v.completed = Bool(FALSE)
         /\ \E title \in TitleInputs \ RejectedTitles :
              last'.ret.v.title = Str(Trim(title.v))
         /\ Trim(last'.ret.v.title.v) = last'.ret.v.title.v ]_vars

\* C16 happens: addTask returned the second task of the list
C16_Witness ==
  /\ last.op = "addTask"
  /\ last.result = "returned"
  /\ Len(TasksOf(state)) = 2
  /\ TasksOf(state)[2] = last.ret
  /\ last.ret.v.title = Str(<<"b">>)

\* No task has this id
NotInTasks(id) == \A i \in 1..Len(TasksOf(state)) : TasksOf(state)[i].v.id # id

\* C17: toggleTaskCompleted and deleteTask with an id that is not in tasks
\* signal a not-found error and leave the state unchanged
C17_UnknownIdRejected ==
  /\ []((last = Idle /\ HasTasks(state) /\ NotInTasks(UnknownId)) =>
          \A now \in Times :
            LET toggled == toggleTaskCompleted(state, subscribers, slot, UnknownId, now, "ok")
                deleted == deleteTask(state, subscribers, slot, UnknownId, now, "ok")
            IN /\ toggled.result = "NotFoundError" /\ toggled.state = state
               /\ deleted.result = "NotFoundError" /\ deleted.state = state)
  /\ [][ (last'.op \in {"toggleTaskCompleted", "deleteTask"}
          /\ last'.result = "NotFoundError") => state' = state ]_vars

\* C17 happens: deleteTask signalled not-found on a list that holds a task
C17_Witness ==
  /\ last.op = "deleteTask"
  /\ last.result = "NotFoundError"
  /\ Len(TasksOf(state)) >= 1

C19_ToggleTwice ==
  last = Idle =>
  \A id \in IdInputs(state) \ {UnknownId}, first \in Times, second \in Times :
    LET once == toggleTaskCompleted(state, subscribers, slot, id, first, "ok")
        twice == toggleTaskCompleted(once.state, subscribers, once.slot, id, second, "ok")
    IN /\ once.result = "returned"
       /\ twice.result = "returned"
       /\ TasksOf(once.state) # TasksOf(state)
       /\ TasksOf(twice.state) = TasksOf(state)

\* C19 happens: a task created by addTask, which is not completed then, is
\* not completed after a toggle: it has been toggled twice
C19_Witness ==
  /\ last.op = "toggleTaskCompleted"
  /\ last.result = "returned"
  /\ last.ret = Bool(FALSE)
  /\ Len(TasksOf(state)) = 2
  /\ \A i \in 1..2 : TasksOf(state)[i].v.title = Str(<<"b">>)

RecognizedFilters == {Str(AllStr), Str(ActiveStr), Str(CompletedStr)}

\* C21: setFilter with a value outside {all, active, completed} signals a
\* validation error and leaves filter and tasks unchanged; with a value
\* inside the set it replaces filter and leaves tasks unchanged
C21_SetFilter ==
  /\ []((last = Idle /\ HasTasks(state)) =>
          \A f \in FilterInputs :
            LET out == setFilter(state, subscribers, slot, f) IN
              IF f \in RecognizedFilters
                THEN /\ out.result = "returned"
                     /\ out.state.v.filter = f
                     /\ out.state.v.tasks = state.v.tasks
                ELSE out.result = "ValidationError" /\ out.state = state)
  /\ [][ (last'.op = "setFilter" /\ HasTasks(state))
         => /\ state'.v.tasks = state.v.tasks
            /\ IF last'.result = "returned"
                 THEN state'.v.filter \in RecognizedFilters
                 ELSE last'.result = "ValidationError" /\ state' = state ]_vars

\* C21 happens: on a list with a task, setFilter replaced the filter
C21_Witness ==
  /\ last.op = "setFilter"
  /\ last.result = "returned"
  /\ Len(TasksOf(state)) >= 1
  /\ state.v.filter = Str(CompletedStr)

\* The tasks the filter selects, in the order of tasks
Selected(tasks, filter) ==
  IF filter = Str(ActiveStr)
    THEN SelectSeq(tasks, LAMBDA task : task.v.completed = Bool(FALSE))
  ELSE IF filter = Str(CompletedStr)
    THEN SelectSeq(tasks, LAMBDA task : task.v.completed = Bool(TRUE))
  ELSE tasks

\* C22: getFilteredTasks returns the tasks the current filter selects, in
\* the order of tasks, and getActiveTaskCount the number of tasks with
\* completed = false, whatever the filter
C22_FilteredTasks ==
  HasTasks(state) =>
    /\ last.op = "getFilteredTasks"
         => /\ last.result = "returned"
            /\ last.ret = Arr(Selected(TasksOf(state), state.v.filter))
    /\ last.op = "getActiveTaskCount"
         => /\ last.result = "returned"
            /\ last.ret = Num(Len(Selected(TasksOf(state), Str(ActiveStr))))

\* C22 happens: under the active filter getFilteredTasks returned one of
\* two tasks
C22_Witness ==
  /\ last.op = "getFilteredTasks"
  /\ last.result = "returned"
  /\ Len(TasksOf(state)) = 2
  /\ state.v.filter = Str(ActiveStr)
  /\ Len(last.ret.v) = 1

\* The task was created by addTask in this page load
CreatedHere(task) ==
  \E t \in Times, rnd \in RandomSuffixes : task.v.id = generateUniqueId(t, rnd)

\* C27: submissions of the same title less than 100 ms apart add one task:
\* no two tasks created by addTask have the same title and creation times
\* less than DEBOUNCE_WAIT apart
C27_BurstCoalesced ==
  \A i, j \in 1..Len(TasksOf(state)) :
    LET a == TasksOf(state)[i]
        b == TasksOf(state)[j]
    IN (i < j /\ CreatedHere(a) /\ CreatedHere(b) /\ a.v.title = b.v.title)
         => \/ a.v.createdAt.v - b.v.createdAt.v >= DEBOUNCE_WAIT
            \/ b.v.createdAt.v - a.v.createdAt.v >= DEBOUNCE_WAIT

\* C28: before init no operation but init changes the container's state or
\* notifies an observer
C28_ReadyOnlyThroughInit ==
  [][ (state = Null /\ last'.op \notin {"none", "init"})
      => /\ state' = Null
         /\ \A i \in 1..Len(last'.trace) : last'.trace[i].e # "notify" ]_vars

\* The id, the title and the createdAt of the two tasks are the same
SameIdentity(a, b) ==
  /\ a.v.id = b.v.id
  /\ a.v.title = b.v.title
  /\ a.v.createdAt = b.v.createdAt

\* C29: a task keeps its id, title and createdAt from addTask to deleteTask:
\* addTask, toggleTaskCompleted and setFilter leave these fields of every
\* task as they are, and after deleteTask every task left is one of the
\* tasks before, in their order
C29_IdentityKept ==
  [][ (last'.op \in Mutations /\ HasTasks(state))
      => IF last'.op = "deleteTask"
           THEN TasksOf(state') \in
                  { SelectSeq(TasksOf(state), LAMBDA task : task.v.id # id) :
                      id \in IdInputs(state) }
           ELSE /\ Len(TasksOf(state')) >= Len(TasksOf(state))
                /\ \A i \in 1..Len(TasksOf(state)) :
                     SameIdentity(TasksOf(state')[i], TasksOf(state)[i]) ]_vars

\* C29 happens: a task created at time 1 was toggled at time 2 and still
\* has createdAt 1
C29_Witness ==
  /\ last.op = "toggleTaskCompleted"
  /\ last.result = "returned"
  /\ state.v.lastSynced = Num(2)
  /\ Len(TasksOf(state)) = 1
  /\ CreatedHere(TasksOf(state)[1])
  /\ TasksOf(state)[1].v.completed = Bool(TRUE)
  /\ TasksOf(state)[1].v.createdAt = Num(1)

\* load ran right after a clear that the store accepted, and the read worked
LoadAfterAcceptedClear ==
  /\ last.op = "load"
  /\ Len(last.trace) >= 3
  /\ last.trace[1] = Ev("getItem", "ok")
  /\ last.trace[2] = Ev("after", "clear")
  /\ last.trace[3] = Ev("store", "ok")

\* C30: clear removes the slot and returns true, and the load that follows
\* returns the default state; when the store raises, clear returns false,
\* does not raise and leaves the slot as it is
C30_Clear ==
  /\ [][ last'.op = "clear"
         => /\ last'.result = "returned"
            /\ IF last'.trace[1] = Ev("store", "ok")
                 THEN last'.ret = Bool(TRUE) /\ slot' = NoItem
                 ELSE last'.ret = Bool(FALSE) /\ slot' = slot ]_vars
  /\ [](LoadAfterAcceptedClear => last.ret = getDefaultState)

\* C30 happens: a clear that the store refused returned false and left a
\* stored document with tasks in the slot
C30_Witness ==
  /\ last.op = "clear"
  /\ last.result = "returned"
  /\ last.ret = Bool(FALSE)
  /\ Len(TasksOf(StoredValue(slot))) = 2

\* C30 also happens the other way: load returned the default state after a
\* clear
C30_Cleared == LoadAfterAcceptedClear /\ slot = NoItem /\ last.ret = getDefaultState

\* The operations that notify: init and the mutations
Notifying == {"init"} \cup Mutations

\* The operations that save after they notified
Saving == {"addTask", "toggleTaskCompleted", "deleteTask"}

\* The calls of observers that an operation made, in the order it made them
NoticesOf(trace) == SelectSeq(trace, LAMBDA ev : ev.e = "notify")

\* C23: every registered observer is invoked exactly once for init and once
\* for each successful mutation, inside the call that triggered it, and the
\* snapshot it receives equals the state that call produced
C23_NotifiedOnce ==
  (last.op \in Notifying /\ last.result = "returned")
    => LET notices == NoticesOf(last.trace) IN
         /\ Len(notices) = Len(subscribers)
         /\ \A i \in 1..Len(notices) :
              /\ notices[i].x = subscribers[i]
              /\ notices[i].snapshot = getState(state)

\* C23 happens: two different observers were registered when addTask went
\* through, and each was called once with the state that holds the new task
C23_Witness ==
  /\ last.op = "addTask"
  /\ last.result = "returned"
  /\ Len(subscribers) = 2
  /\ subscribers[1] # subscribers[2]
  /\ Len(NoticesOf(last.trace)) = 2
  /\ Len(TasksOf(NoticesOf(last.trace)[2].snapshot)) = 2

\* C24: on each notification the observers are invoked in registration
\* order, and an observer that throws does not stop the remaining observers,
\* does not abort the operation and does not prevent the save that follows
C24_ThrowerIsolated ==
  (last.op \in Notifying /\ last.trace # <<>>)
    => /\ last.result = "returned"
       /\ Len(last.trace) >= Len(subscribers) + 1
       /\ \A i \in 1..Len(subscribers) :
            /\ last.trace[1 + i].e = "notify"
            /\ last.trace[1 + i].x = subscribers[i]
       /\ last.op \in Saving
            => /\ Len(last.trace) >= Len(subscribers) + 2
               /\ last.trace[Len(subscribers) + 2] = Ev("save", "ok")

\* C24 happens: the first of two observers threw during addTask, the second
\* was called after it and the save followed
C24_Witness ==
  /\ last.op = "addTask"
  /\ last.result = "returned"
  /\ subscribers = <<"o2", "o1">>
  /\ last.trace[2].x = "o2" /\ last.trace[2].threw
  /\ last.trace[3].x = "o1" /\ ~last.trace[3].threw
  /\ last.trace[4] = Ev("save", "ok")
  /\ Len(TasksOf(state)) = 1

\* The callbacks that are registered
Registered == {subscribers[i] : i \in 1..Len(subscribers)}

\* C25: after the function returned by subscribe(callback) has been called
\* the callback is registered no more; only subscribe registers a callback,
\* and no init or mutation invokes a callback that is not registered
C25_UnsubscribedNotInvoked ==
  /\ [][ last'.op = "unsubscribe" => last'.trace[1].x \notin Registered' ]_vars
  /\ [][ Registered' \subseteq Registered \/ last'.op = "subscribe" ]_vars
  /\ [](\A i \in 1..Len(last.trace) :
          last.trace[i].e = "notify" => last.trace[i].x \in Registered)

\* C25 happens: on an initialized container one of two observers was
\* unsubscribed and the other stays registered
C25_Witness ==
  /\ last.op = "unsubscribe"
  /\ HasTasks(state)
  /\ last.trace[1].x \notin Registered
  /\ subscribers # <<>>

\* C26: no write performed by a caller on a value returned by getState() or
\* getFilteredTasks() changes what later getState() calls return
C26_NoMutableHandle ==
  [][ last'.op = "callerWrite" => getState(state') = getState(state) ]_vars

\* load read a stored state that has no lastSynced and is otherwise valid
LoadOfStateWithoutLastSynced ==
  /\ last.op = "load"
  /\ last.trace[1] = Ev("getItem", "ok")
  /\ ValidState(StoredValue(slot))
  /\ Field(StoredValue(slot), "lastSynced") = Undefined

\* C31 as stated: a stored state that has no lastSynced, and is otherwise
\* valid, is accepted by load and returned with its tasks and filter
C31_AbsentLastSyncedAccepted ==
  LoadOfStateWithoutLastSynced
    => /\ Field(last.ret, "tasks") = Field(StoredValue(slot), "tasks")
       /\ Field(last.ret, "filter") = Field(StoredValue(slot), "filter")

\* C31: a stored state that has no lastSynced, and is otherwise valid, is
\* refused by load, which returns the default state
C31_AbsentLastSyncedRefused ==
  LoadOfStateWithoutLastSynced => last.ret = getDefaultState

\* C31 happens: the stored state held one task and no lastSynced, and load
\* returned the default state
C31_Witness ==
  /\ LoadOfStateWithoutLastSynced
  /\ Len(TasksOf(StoredValue(slot))) = 1
  /\ last.ret = getDefaultState

\* The results of an operation that was rejected
Rejections == {"ValidationError", "NotFoundError"}

\* C32: an operation that is rejected (addTask with an invalid title,
\* toggleTaskCompleted or deleteTask with an unknown id, setFilter with an
\* invalid value) invokes no observer, writes nothing to the store and
\* dispatches no task or filter event
C32_RejectedDoesNothing ==
  [][ (last'.op \in Mutations /\ last'.result \in Rejections)
        => /\ \A i \in 1..Len(last'.trace) :
                last'.trace[i].e \notin {"notify", "save", "diag", "event"}
           /\ slot' = slot
           /\ state' = state ]_vars

\* C32 happens: with an observer registered and a task stored, setFilter was
\* rejected
C32_Witness ==
  /\ last.op = "setFilter"
  /\ last.result = "ValidationError"
  /\ subscribers # <<>>
  /\ Len(TasksOf(state)) >= 1
  /\ slot # NoItem

\* C33: after one or more failed saves, the first later mutation whose save
\* succeeds writes the complete current in-memory state, so the store then
\* holds every task change made during the failure period
C33_NextSaveWritesAll ==
  [][ (/\ last'.op \in Saving
       /\ faults > 0
       /\ WriteAccepted(last')) => StoredValue(slot') = state' ]_vars

\* C33 happens: the save of the first addTask was refused, the save of the
\* second was accepted, and the store holds both tasks
C33_Witness ==
  /\ last.op = "addTask"
  /\ last.refused > 0
  /\ WriteAccepted(last)
  /\ Len(TasksOf(state)) = 2
  /\ TasksOf(StoredValue(slot)) = TasksOf(state)

\* The positions where the completed flag differs
FlagChanged(before, after) ==
  {i \in 1..Len(before) : i > Len(after) \/ after[i].v.completed # before[i].v.completed}

\* C34: a successful deleteTask(id) decreases the length of tasks by exactly
\* one and a successful toggleTaskCompleted(id) changes the completed flag of
\* exactly one task, in every state the container can reach, the states
\* installed by init from the store included
C34_ExactlyOne ==
  [][ /\ (last'.op = "deleteTask" /\ last'.result = "returned")
           => Len(TasksOf(state')) = Len(TasksOf(state)) - 1
      /\ (last'.op = "toggleTaskCompleted" /\ last'.result = "returned")
           => /\ Len(TasksOf(state')) = Len(TasksOf(state))
              /\ Cardinality(FlagChanged(TasksOf(state), TasksOf(state'))) = 1 ]_vars

\* The number of registrations of a callback
Registrations(subs, callback) ==
  Cardinality({i \in 1..Len(subs) : subs[i] = callback})

\* C35: the function returned by one subscribe call removes only the
\* registration made by that call: other observers, and a second
\* registration of the same callback function, stay registered and keep
\* being notified
C35_RemovesOneRegistration ==
  [][ last'.op = "unsubscribe"
        => \A callback \in Registered :
             Registrations(subscribers', callback) =
               IF callback = last'.trace[1].x
                 THEN Registrations(subscribers, callback) - 1
                 ELSE Registrations(subscribers, callback) ]_vars

\* The positions of the events of one kind in a trace
At(trace, kind) == {i \in 1..Len(trace) : trace[i].e = kind}

\* The state the container held when event i of the trace happened: the one
\* installed by the latest replacement before it
StateAt(trace, i) ==
  LET earlier == {j \in At(trace, "state") : j < i}
  IN trace[CHOOSE j \in earlier : \A k \in earlier : k <= j].now

\* C36: when an observer calls a mutating operation from inside its
\* callback, the nested operation runs to completion inside the outer one,
\* every observer invoked afterwards receives the latest state, and the last
\* write to the store made by the outer operation holds the final in-memory
\* state
C36_NestedMutation ==
  (last.op \in Notifying /\ last.result = "returned" /\ At(last.trace, "nested") # {})
    => /\ Cardinality(At(last.trace, "unwound")) = Cardinality(At(last.trace, "nested"))
       /\ \A i \in At(last.trace, "notify") :
            last.trace[i].snapshot = StateAt(last.trace, i)
       /\ StateAt(last.trace, Len(last.trace) + 1) = getState(state)
       /\ last.op \in Saving
            => /\ \E i \in At(last.trace, "save") :
                    /\ last.trace[i] = Ev("save", "ok")
                    /\ \A j \in At(last.trace, "state") \cup At(last.trace, "notify")
                                \cup At(last.trace, "unwound") : j < i
               /\ StoredValue(slot) = state

\* C36 happens: during addTask an observer set the filter, the observer
\* registered after it was called with the new filter, and the store holds
\* the task and the new filter
C36_Witness ==
  /\ last.op = "addTask"
  /\ last.result = "returned"
  /\ subscribers = <<"o3", "o1">>
  /\ \E i \in At(last.trace, "nested") : last.trace[i].x = "setFilter"
  /\ \E i \in At(last.trace, "notify") :
       /\ last.trace[i].x = "o1"
       /\ last.trace[i].snapshot = getState(state)
  /\ Len(TasksOf(state)) = 1
  /\ state.v.filter = Str(CompletedStr)
  /\ StoredValue(slot) = state

\* The tasks whose completed flag differs between two task lists of the
\* same length
Flipped(before, after) ==
  {i \in 1..Len(before) : after[i].v.completed # before[i].v.completed}

InvocationsOf(k) ==
  {i \in 1..Len(debounced.invoked) : debounced.invoked[i].after = k}

\* Call k comes less than Wait before the next call: the burst goes on
BurstGoesOn(k) ==
  /\ k < Len(debounced.calls)
  /\ debounced.calls[k + 1].at - debounced.calls[k].at < Wait

\* Call k is the last of its burst and Wait has passed since
BurstOver(k) ==
  IF k < Len(debounced.calls)
    THEN debounced.calls[k + 1].at - debounced.calls[k].at >= Wait
    ELSE debounced.now > debounced.calls[k].at + Wait

\* C38 as stated: any burst of calls in which each call comes less than wait
\* after the previous one results in exactly one invocation of func, made
\* wait after the last call of the burst and with the arguments of that call
C38_BurstInvokedOnce ==
  \A k \in 1..Len(debounced.calls) :
    /\ BurstGoesOn(k) => InvocationsOf(k) = {}
    /\ BurstOver(k)
         => /\ Cardinality(InvocationsOf(k)) = 1
            /\ \A i \in InvocationsOf(k) :
                 /\ debounced.invoked[i].at = debounced.calls[k].at + Wait
                 /\ debounced.invoked[i].args = debounced.calls[k].args

\* C38: func is never invoked in the middle of a burst; after the last call
\* of a burst it is invoked at most once, no earlier than wait after that
\* call and with the arguments of that call; and as long as it has not been
\* invoked for the latest call, the timer of that call is waiting
C38_TrailingCall ==
  \A k \in 1..Len(debounced.calls) :
    /\ BurstGoesOn(k) => InvocationsOf(k) = {}
    /\ Cardinality(InvocationsOf(k)) <= 1
    /\ \A i \in InvocationsOf(k) :
         /\ debounced.invoked[i].at >= debounced.calls[k].at + Wait
         /\ debounced.invoked[i].args = debounced.calls[k].args
    /\ (k = Len(debounced.calls) /\ InvocationsOf(k) = {})
         => debounced.timeout = [due |-> debounced.calls[k].at + Wait,
                                 args |-> debounced.calls[k].args]

\* C38 happens: three calls, each less than Wait after the one before and
\* the last with other arguments than the first, led to one invocation, Wait
\* after the last call and with its arguments
C38_Witness ==
  /\ Len(debounced.calls) = 3
  /\ BurstGoesOn(1) /\ BurstGoesOn(2)
  /\ debounced.calls[1].args # debounced.calls[3].args
  /\ Len(debounced.invoked) = 1
  /\ debounced.invoked[1] = [at |-> debounced.calls[3].at + Wait,
                             args |-> debounced.calls[3].args, after |-> 3]

====
